---------------------------- MODULE Spec2Model ----------------------------
(***************************************************************************)
(* Model of user_space/main.c: a single-shot V4L2 capture session.         *)
(*                                                                         *)
(* The program is one thread that runs main()'s call sequence.  Each       *)
(* function of main.c is one action; get_frame() is split at its blocking  *)
(* VIDIOC_DQBUF because the driver fills the buffer between the enqueue    *)
(* and the dequeue.  The kernel side (device open, the control requests,   *)
(* mmap, the image file) is the environment: every system call may fail,   *)
(* and what a successful request writes back is chosen by the driver.      *)
(***************************************************************************)
EXTENDS Integers, Sequences, FiniteSets, TLC

(***************************************************************************)
(* Bounds of the model.                                                    *)
(***************************************************************************)
\* Largest buffer length (in bytes) the driver allocates.
MaxLen == 2
\* Largest length of a file already present at the output path.
MaxFileLen == 3
\* Largest byte value held by the region or the file (0 is the zero byte).
MaxByte == 1
\* Number of get_frame() calls a caller makes while streaming (SpecTwice).
MaxCaptures == 2

Byte == 0..MaxByte

(***************************************************************************)
(* Program constants.                                                      *)
(***************************************************************************)
CAMERA_DEV_PATH == "/dev/video0"
IMAGE_CAPTURE_SAVE_PATH == "/home/pi/captured_frame_raw.jpeg"
V4L2_BUF_TYPE_VIDEO_CAPTURE == "V4L2_BUF_TYPE_VIDEO_CAPTURE"
V4L2_MEMORY_MMAP == "V4L2_MEMORY_MMAP"
V4L2_PIX_FMT_MJPEG == "V4L2_PIX_FMT_MJPEG"
V4L2_COLORSPACE_REC709 == "V4L2_COLORSPACE_REC709"
\* The value of a tag field of a zero-filled struct.
ZeroTag == "0"

VARIABLES
    pc,             \* the function main() is about to call, or "exited"
    exit_code,      \* the process exit code; -1 while the process runs
    camera_params,  \* static struct camera_params_t camera_params
    dev_open,       \* the kernel holds the device handle open
    mapping,        \* the shared mapping created by mmap, or NoMapping
    region,         \* bytes of the mapped region
    drv,            \* driver side of the device control interface
    sink,           \* the file at IMAGE_CAPTURE_SAVE_PATH
    calls,          \* every system call / region access issued, in order
    stderr,         \* diagnostics written by perror
    stdout,         \* lines written by printf
    captured        \* the descriptor left by each completed get_frame

vars == <<pc, exit_code, camera_params, dev_open, mapping, region, drv, sink,
          calls, stderr, stdout, captured>>

(***************************************************************************)
(* Data.                                                                   *)
(***************************************************************************)
\* struct v4l2_buffer after memset(&buffer, 0, sizeof buffer).
ZeroBuffer ==
    [type |-> ZeroTag, memory |-> ZeroTag, index |-> 0, length |-> 0,
     offset |-> 0, timestamp |-> 0]

ZeroFormat ==
    [type |-> ZeroTag, width |-> 0, height |-> 0, pixelformat |-> ZeroTag,
     colorspace |-> ZeroTag]

ZeroRequest == [type |-> ZeroTag, memory |-> ZeroTag, count |-> 0]

\* The file-static camera_params: static storage is zero-initialised.
ZeroParams ==
    [device_fs |-> 0, capture_format |-> ZeroFormat,
     buffer_request |-> ZeroRequest, buffer |-> ZeroBuffer,
     buffer_start |-> "NULL"]

NoMapping == [length |-> 0, offset |-> 0, mapped |-> FALSE]

NoArg == [none |-> TRUE]

\* Byte sequences of length exactly n / at most n.
BytesOfLen(n) == [1..n -> Byte]
BytesUpTo(n) == UNION {BytesOfLen(k) : k \in 0..n}

AllZero(s) == \A i \in 1..Len(s) : s[i] = 0

\* Variant of Memset that stops one byte short.
MemsetShort(s, n) == [i \in 1..Len(s) |-> IF i < n THEN 0 ELSE s[i]]

\* memset(s, 0, n) on a region s.
Memset(s, n) == [i \in 1..Len(s) |-> IF i <= n THEN 0 ELSE s[i]]

\* write(fd, src, n) at file offset 0 of a file opened without O_TRUNC:
\* the first n bytes are replaced, bytes past n stay as they were.
WriteAt0(content, src, n) ==
    [i \in 1..(IF Len(content) > n THEN Len(content) ELSE n) |->
        IF i <= n THEN src[i] ELSE content[i]]

\* Variant of RequestedFormat with another geometry.
RequestedFormatVGA ==
    [type |-> V4L2_BUF_TYPE_VIDEO_CAPTURE, width |-> 640, height |-> 480,
     pixelformat |-> V4L2_PIX_FMT_MJPEG, colorspace |-> V4L2_COLORSPACE_REC709]

\* The format set_video_format requests.
RequestedFormat ==
    [type |-> V4L2_BUF_TYPE_VIDEO_CAPTURE, width |-> 1920, height |-> 1080,
     pixelformat |-> V4L2_PIX_FMT_MJPEG, colorspace |-> V4L2_COLORSPACE_REC709]

\* What the driver may write back into the format descriptor on success:
\* the request itself or a nearest supported format.
AdjustedFormats(f) ==
    {f, [f EXCEPT !.width = 1280, !.height = 720],
        [f EXCEPT !.pixelformat = "V4L2_PIX_FMT_YUYV",
                  !.colorspace = "V4L2_COLORSPACE_SRGB"]}

\* Device-relative offsets the driver may assign to buffer 0.
Offsets == {0, 4096}

\* The driver before the device is opened: no buffer, not streaming.
DriverIdle ==
    [allocated |-> FALSE, length |-> 0, offset |-> 0, streaming |-> FALSE,
     queued |-> FALSE, filled |-> FALSE, clock |-> 0, frame_ts |-> 0]

(***************************************************************************)
(* Initial state: the process has started, nothing is open; the output     *)
(* path is absent or holds any content.                                    *)
(***************************************************************************)
Init ==
    /\ pc = "open_camera_device"
    /\ exit_code = -1
    /\ camera_params = ZeroParams
    /\ dev_open = FALSE
    /\ mapping = NoMapping
    /\ region = <<>>
    /\ drv = DriverIdle
    /\ sink \in {[exists |-> FALSE, content |-> <<>>]}
                \cup {[exists |-> TRUE, content |-> c] : c \in BytesUpTo(MaxFileLen)}
    /\ calls = <<>>
    /\ stderr = <<>>
    /\ stdout = <<>>
    /\ captured = <<>>

\* One entry of the call log.
Call(op, ok, arg, ret) == [op |-> op, ok |-> ok, arg |-> arg, ret |-> ret]

\* The text each failing step hands to perror before exit(1).
Diagnostic(op) ==
    CASE op = "open"             -> "Error opening /dev/video0\n"
      [] op = "VIDIOC_S_FMT"     -> "VIDIOC_S_FMT"
      [] op = "VIDIOC_REQBUFS"   -> "VIDIOC_REQBUFS"
      [] op = "VIDIOC_QUERYBUF"  -> "Failure on VIDIOC_QUERYBUF, exiting...\n"
      [] op = "mmap"             -> "Failure on mmap, exiting...\n"
      [] op = "VIDIOC_STREAMON"  -> "VIDIOC_STREAMON"
      [] op = "VIDIOC_QBUF"      -> "VIDIOC_QBUF"
      [] op = "VIDIOC_DQBUF"     -> "VIDIOC_QBUF"
      [] op = "VIDIOC_STREAMOFF" -> "VIDIOC_STREAMOFF"
      [] op = "open_image"       -> "open"

\* perror(text); exit(1);
Die(text) ==
    /\ stderr' = Append(stderr, text)
    /\ pc' = "exited"
    /\ exit_code' = 1


(***************************************************************************)
(* main(): the call sequence.                                              *)
(***************************************************************************)
\* Variant of NextStep: the buffer request is issued before the format.
NextStepSwapped(p) ==
    CASE p = "open_camera_device"   -> "request_buffer"
      [] p = "request_buffer"       -> "set_video_format"
      [] p = "set_video_format"     -> "allocate_buffer"
      [] p = "allocate_buffer"      -> "activate_streaming"
      [] p = "activate_streaming"   -> "get_frame"
      [] p = "get_frame"            -> "deactivate_streaming"
      [] p = "deactivate_streaming" -> "save_to_image"
      [] p = "save_to_image"        -> "close_camera_device"
      [] p = "close_camera_device"  -> "main_return"
      [] OTHER                      -> "exited"

\* Variant of NextStep: the frame is saved while the buffer is still queued.
NextStepSaveEarly(p) ==
    CASE p = "open_camera_device"   -> "set_video_format"
      [] p = "set_video_format"     -> "request_buffer"
      [] p = "request_buffer"       -> "allocate_buffer"
      [] p = "allocate_buffer"      -> "activate_streaming"
      [] p = "activate_streaming"   -> "get_frame"
      [] p = "get_frame_qbuf"       -> "save_to_image"
      [] p = "save_to_image"        -> "get_frame_dqbuf"
      [] p = "get_frame"            -> "deactivate_streaming"
      [] p = "deactivate_streaming" -> "close_camera_device"
      [] p = "close_camera_device"  -> "main_return"
      [] OTHER                      -> "exited"

\* Variant of NextStep: streaming is switched off only after the frame is
\* saved.
NextStepStreamOffLate(p) ==
    CASE p = "open_camera_device"     -> "set_video_format"
      [] p = "set_video_format"       -> "request_buffer"
      [] p = "request_buffer"         -> "allocate_buffer"
      [] p = "allocate_buffer"        -> "activate_streaming"
      [] p = "activate_streaming"     -> "get_frame"
      [] p = "get_frame_qbuf"         -> "get_frame_dqbuf"
      [] p = "get_frame"              -> "save_to_image"
      [] p = "deactivate_streaming"   -> "close_camera_device"
      [] p = "save_to_image"          -> "deactivate_streaming"
      [] p = "close_camera_device"    -> "main_return"
      [] OTHER                      -> "exited"

\* Variant of NextStep: deactivate_streaming is never called.
NextStepNoStreamOff(p) ==
    CASE p = "open_camera_device"     -> "set_video_format"
      [] p = "set_video_format"       -> "request_buffer"
      [] p = "request_buffer"         -> "allocate_buffer"
      [] p = "allocate_buffer"        -> "activate_streaming"
      [] p = "activate_streaming"     -> "get_frame"
      [] p = "get_frame_qbuf"         -> "get_frame_dqbuf"
      [] p = "get_frame"              -> "save_to_image"
      [] p = "save_to_image"          -> "close_camera_device"
      [] p = "close_camera_device"    -> "main_return"
      [] OTHER                      -> "exited"

\* Variant of NextStep: get_frame is called before activate_streaming.
NextStepCaptureFirst(p) ==
    CASE p = "open_camera_device"     -> "set_video_format"
      [] p = "set_video_format"       -> "request_buffer"
      [] p = "request_buffer"         -> "allocate_buffer"
      [] p = "allocate_buffer"        -> "get_frame"
      [] p = "activate_streaming"     -> "deactivate_streaming"
      [] p = "get_frame_qbuf"         -> "get_frame_dqbuf"
      [] p = "get_frame"              -> "activate_streaming"
      [] p = "deactivate_streaming"   -> "save_to_image"
      [] p = "save_to_image"          -> "close_camera_device"
      [] p = "close_camera_device"    -> "main_return"
      [] OTHER                      -> "exited"

\* The step that follows once the step p has returned: main()'s call
\* sequence, and inside get_frame the dequeue after the enqueue.
NextStep(p) ==
    CASE p = "open_camera_device"   -> "set_video_format"
      [] p = "set_video_format"     -> "request_buffer"
      [] p = "request_buffer"       -> "allocate_buffer"
      [] p = "allocate_buffer"      -> "activate_streaming"
      [] p = "activate_streaming"   -> "get_frame"
      [] p = "get_frame_qbuf"       -> "get_frame_dqbuf"
      [] p = "get_frame"            -> "deactivate_streaming"
      [] p = "deactivate_streaming" -> "save_to_image"
      [] p = "save_to_image"        -> "close_camera_device"
      [] p = "close_camera_device"  -> "main_return"
      [] OTHER                      -> "exited"

\* The function returns normally to main().
Return(f) ==
    /\ pc' = NextStep(f)
    /\ UNCHANGED <<exit_code, stderr>>

(***************************************************************************)
(* open_camera_device                                                      *)
(***************************************************************************)
open_camera_device ==
    /\ pc = "open_camera_device"
    /\ \E ok \in BOOLEAN :
        IF ok
        THEN /\ camera_params' = [camera_params EXCEPT !.device_fs = 3]
             /\ dev_open' = TRUE
             /\ calls' = Append(calls,
                    Call("open", TRUE, [path |-> CAMERA_DEV_PATH], NoArg))
             /\ Return("open_camera_device")
        ELSE /\ camera_params' = [camera_params EXCEPT !.device_fs = -1]
             /\ dev_open' = FALSE
             /\ calls' = Append(calls,
                    Call("open", FALSE, [path |-> CAMERA_DEV_PATH], NoArg))
             /\ Die(Diagnostic("open"))
    /\ UNCHANGED <<mapping, region, drv, sink, stdout, captured>>

(***************************************************************************)
(* set_video_format                                                        *)
(***************************************************************************)
set_video_format ==
    /\ pc = "set_video_format"
    /\ \E ok \in BOOLEAN :
        IF ok
        THEN \E adjusted \in AdjustedFormats(RequestedFormat) :
             /\ camera_params' =
                    [camera_params EXCEPT !.capture_format = adjusted]
             /\ calls' = Append(calls,
                    Call("VIDIOC_S_FMT", TRUE, RequestedFormat, adjusted))
             /\ Return("set_video_format")
        ELSE /\ camera_params' =
                    [camera_params EXCEPT !.capture_format = RequestedFormat]
             /\ calls' = Append(calls,
                    Call("VIDIOC_S_FMT", FALSE, RequestedFormat, NoArg))
             /\ Die(Diagnostic("VIDIOC_S_FMT"))
    /\ UNCHANGED <<dev_open, mapping, region, drv, sink, stdout, captured>>

(***************************************************************************)
(* request_buffer                                                          *)
(***************************************************************************)
\* The request request_buffer latches.
BufferRequest ==
    [type |-> V4L2_BUF_TYPE_VIDEO_CAPTURE, memory |-> V4L2_MEMORY_MMAP,
     count |-> 1]

\* Variant of request_buffer that reads the format descriptor back and gives
\* up when the driver changed it.
request_buffer_readback ==
    /\ pc = "request_buffer"
    /\ camera_params' = [camera_params EXCEPT !.buffer_request = BufferRequest]
    /\ IF camera_params.capture_format # RequestedFormat
       THEN /\ drv' = drv
            /\ calls' = calls
            /\ Die("format adjusted")
       ELSE \E ok \in BOOLEAN :
            IF ok
            THEN \E len \in 1..MaxLen, off \in Offsets :
                 /\ drv' = [drv EXCEPT !.allocated = TRUE, !.length = len,
                                       !.offset = off]
                 /\ calls' = Append(calls,
                        Call("VIDIOC_REQBUFS", TRUE, BufferRequest,
                             BufferRequest))
                 /\ Return("request_buffer")
            ELSE /\ drv' = drv
                 /\ calls' = Append(calls,
                        Call("VIDIOC_REQBUFS", FALSE, BufferRequest, NoArg))
                 /\ Die(Diagnostic("VIDIOC_REQBUFS"))
    /\ UNCHANGED <<dev_open, mapping, region, sink, stdout, captured>>

request_buffer ==
    /\ pc = "request_buffer"
    /\ camera_params' = [camera_params EXCEPT !.buffer_request = BufferRequest]
    /\ \E ok \in BOOLEAN :
        IF ok
        THEN \E len \in 1..MaxLen, off \in Offsets :
             /\ drv' = [drv EXCEPT !.allocated = TRUE, !.length = len,
                                   !.offset = off]
             /\ calls' = Append(calls,
                    Call("VIDIOC_REQBUFS", TRUE, BufferRequest, BufferRequest))
             /\ Return("request_buffer")
        ELSE /\ drv' = drv
             /\ calls' = Append(calls,
                    Call("VIDIOC_REQBUFS", FALSE, BufferRequest, NoArg))
             /\ Die(Diagnostic("VIDIOC_REQBUFS"))
    /\ UNCHANGED <<dev_open, mapping, region, sink, stdout, captured>>

(***************************************************************************)
(* allocate_buffer                                                         *)
(***************************************************************************)
\* Variant of FreshBuffer that names buffer index 1.
FreshBufferIndex1 ==
    [ZeroBuffer EXCEPT !.type = V4L2_BUF_TYPE_VIDEO_CAPTURE,
                       !.memory = V4L2_MEMORY_MMAP, !.index = 1]

\* The descriptor allocate_buffer and activate_streaming build after the
\* memset: type, memory and index set, every other field zero.
FreshBuffer ==
    [ZeroBuffer EXCEPT !.type = V4L2_BUF_TYPE_VIDEO_CAPTURE,
                       !.memory = V4L2_MEMORY_MMAP, !.index = 0]

\* What a successful VIDIOC_QUERYBUF writes into the descriptor b.
QueryBufReply(b, d) == [b EXCEPT !.length = d.length, !.offset = d.offset]

\* Variant of MmapArgs that maps at offset 0 whatever the driver reported.
MmapArgsZeroOffset(b) == [length |-> b.length, offset |-> 0]

\* The length and offset allocate_buffer passes to mmap.
MmapArgs(b) == [length |-> b.length, offset |-> b.offset]

\* Variant of allocate_buffer that releases the device handle on its error
\* paths before exiting.
allocate_buffer_closing ==
    /\ pc = "allocate_buffer"
    /\ \/ /\ camera_params' = [camera_params EXCEPT !.buffer = FreshBuffer]
          /\ calls' = calls \o
                 << Call("VIDIOC_QUERYBUF", FALSE, FreshBuffer, NoArg),
                    Call("close", TRUE, [fd |-> camera_params.device_fs],
                         NoArg) >>
          /\ Die(Diagnostic("VIDIOC_QUERYBUF"))
          /\ dev_open' = FALSE
          /\ UNCHANGED <<mapping, region>>
       \/ LET b == QueryBufReply(FreshBuffer, drv) IN
          /\ camera_params' = [camera_params EXCEPT !.buffer = b,
                                        !.buffer_start = "MAP_FAILED"]
          /\ calls' = calls \o
                 << Call("VIDIOC_QUERYBUF", TRUE, FreshBuffer, b),
                    Call("mmap", FALSE, MmapArgs(b), NoArg),
                    Call("close", TRUE, [fd |-> camera_params.device_fs],
                         NoArg) >>
          /\ Die(Diagnostic("mmap"))
          /\ dev_open' = FALSE
          /\ UNCHANGED <<mapping, region>>
       \/ LET b == QueryBufReply(FreshBuffer, drv)
              a == MmapArgs(b)
          IN
          /\ a.length > 0
          /\ camera_params' = [camera_params EXCEPT !.buffer = b,
                                        !.buffer_start = "mapped"]
          /\ mapping' = [length |-> a.length, offset |-> a.offset,
                         mapped |-> TRUE]
          /\ \E stale \in BytesOfLen(a.length) :
                region' = Memset(stale, b.length)
          /\ calls' = calls \o
                 << Call("VIDIOC_QUERYBUF", TRUE, FreshBuffer, b),
                    Call("mmap", TRUE, a, NoArg),
                    Call("memset", TRUE, [length |-> b.length], NoArg) >>
          /\ Return("allocate_buffer")
          /\ UNCHANGED dev_open
    /\ UNCHANGED <<drv, sink, stdout, captured>>

allocate_buffer ==
    /\ pc = "allocate_buffer"
    /\ \/ \* VIDIOC_QUERYBUF fails
          /\ camera_params' = [camera_params EXCEPT !.buffer = FreshBuffer]
          /\ calls' = Append(calls,
                 Call("VIDIOC_QUERYBUF", FALSE, FreshBuffer, NoArg))
          /\ Die(Diagnostic("VIDIOC_QUERYBUF"))
          /\ UNCHANGED <<mapping, region>>
       \/ \* VIDIOC_QUERYBUF succeeds, mmap fails
          LET b == QueryBufReply(FreshBuffer, drv) IN
          /\ camera_params' = [camera_params EXCEPT !.buffer = b,
                                        !.buffer_start = "MAP_FAILED"]
          /\ calls' = calls \o
                 << Call("VIDIOC_QUERYBUF", TRUE, FreshBuffer, b),
                    Call("mmap", FALSE, MmapArgs(b), NoArg) >>
          /\ Die(Diagnostic("mmap"))
          /\ UNCHANGED <<mapping, region>>
       \/ \* both succeed; the region is then zeroed
          LET b == QueryBufReply(FreshBuffer, drv)
              a == MmapArgs(b)
          IN
          /\ a.length > 0
          /\ camera_params' = [camera_params EXCEPT !.buffer = b,
                                        !.buffer_start = "mapped"]
          /\ mapping' = [length |-> a.length, offset |-> a.offset,
                         mapped |-> TRUE]
          /\ \E stale \in BytesOfLen(a.length) :
                region' = Memset(stale, b.length)
          /\ calls' = calls \o
                 << Call("VIDIOC_QUERYBUF", TRUE, FreshBuffer, b),
                    Call("mmap", TRUE, a, NoArg),
                    Call("memset", TRUE, [length |-> b.length], NoArg) >>
          /\ Return("allocate_buffer")
    /\ UNCHANGED <<dev_open, drv, sink, stdout, captured>>

(***************************************************************************)
(* activate_streaming                                                      *)
(***************************************************************************)
\* Variant of activate_streaming without the memset of the descriptor.
activate_streaming_keep ==
    /\ pc = "activate_streaming"
    /\ camera_params' =
          [camera_params EXCEPT !.buffer.type = V4L2_BUF_TYPE_VIDEO_CAPTURE,
                                !.buffer.memory = V4L2_MEMORY_MMAP,
                                !.buffer.index = 0]
    /\ \E ok \in BOOLEAN :
        IF ok
        THEN /\ drv' = [drv EXCEPT !.streaming = TRUE]
             /\ calls' = Append(calls,
                    Call("VIDIOC_STREAMON", TRUE,
                         [type |-> V4L2_BUF_TYPE_VIDEO_CAPTURE], NoArg))
             /\ Return("activate_streaming")
        ELSE /\ drv' = drv
             /\ calls' = Append(calls,
                    Call("VIDIOC_STREAMON", FALSE,
                         [type |-> V4L2_BUF_TYPE_VIDEO_CAPTURE], NoArg))
             /\ Die(Diagnostic("VIDIOC_STREAMON"))
    /\ UNCHANGED <<dev_open, mapping, region, sink, stdout, captured>>

\* Variant of activate_streaming that ignores the request's status.
activate_streaming_unchecked ==
    /\ pc = "activate_streaming"
    /\ camera_params' = [camera_params EXCEPT !.buffer = FreshBuffer]
    /\ \E ok \in BOOLEAN :
        /\ drv' = [drv EXCEPT !.streaming = ok]
        /\ calls' = Append(calls,
               Call("VIDIOC_STREAMON", ok, [type |-> FreshBuffer.type], NoArg))
        /\ Return("activate_streaming")
    /\ UNCHANGED <<dev_open, mapping, region, sink, stdout, captured>>

activate_streaming ==
    /\ pc = "activate_streaming"
    /\ camera_params' = [camera_params EXCEPT !.buffer = FreshBuffer]
    /\ \E ok \in BOOLEAN :
        IF ok
        THEN /\ drv' = [drv EXCEPT !.streaming = TRUE]
             /\ calls' = Append(calls,
                    Call("VIDIOC_STREAMON", TRUE,
                         [type |-> FreshBuffer.type], NoArg))
             /\ Return("activate_streaming")
        ELSE /\ drv' = drv
             /\ calls' = Append(calls,
                    Call("VIDIOC_STREAMON", FALSE,
                         [type |-> FreshBuffer.type], NoArg))
             /\ Die(Diagnostic("VIDIOC_STREAMON"))
    /\ UNCHANGED <<dev_open, mapping, region, sink, stdout, captured>>


(***************************************************************************)
(* get_frame: VIDIOC_QBUF, then the blocking VIDIOC_DQBUF                  *)
(***************************************************************************)
get_frame_qbuf ==
    /\ pc = "get_frame"
    /\ \E ok \in BOOLEAN :
        IF ok
        THEN /\ drv' = [drv EXCEPT !.queued = TRUE, !.filled = FALSE]
             /\ calls' = Append(calls,
                    Call("VIDIOC_QBUF", TRUE, camera_params.buffer, NoArg))
             /\ Return("get_frame_qbuf")
        ELSE /\ drv' = drv
             /\ calls' = Append(calls,
                    Call("VIDIOC_QBUF", FALSE, camera_params.buffer, NoArg))
             /\ Die(Diagnostic("VIDIOC_QBUF"))
    /\ UNCHANGED <<camera_params, dev_open, mapping, region, sink, stdout,
                   captured>>

\* The driver fills the queued buffer with a frame while streaming.
driver_fill_buffer ==
    /\ drv.streaming /\ drv.queued /\ ~drv.filled
    /\ mapping.mapped
    /\ \E frame \in BytesOfLen(drv.length) : region' = frame
    /\ drv' = [drv EXCEPT !.filled = TRUE, !.clock = drv.clock + 1,
                          !.frame_ts = drv.clock + 1]
    /\ UNCHANGED <<pc, exit_code, camera_params, dev_open, mapping, sink,
                   calls, stderr, stdout, captured>>

\* What a successful VIDIOC_DQBUF writes into the descriptor b.
DqBufReply(b, d) ==
    [b EXCEPT !.index = 0, !.length = d.length, !.offset = d.offset,
              !.timestamp = d.frame_ts]

\* Variant of get_frame_dqbuf that dequeues into a local descriptor, leaving
\* camera_params.buffer as the enqueue left it.
get_frame_dqbuf_local ==
    /\ pc = "get_frame_dqbuf"
    /\ \/ /\ drv.filled
          /\ calls' = Append(calls,
                 Call("VIDIOC_DQBUF", TRUE, camera_params.buffer,
                      camera_params.buffer))
          /\ captured' = Append(captured, camera_params.buffer)
          /\ drv' = [drv EXCEPT !.queued = FALSE, !.filled = FALSE]
          /\ Return("get_frame")
       \/ /\ calls' = Append(calls,
                 Call("VIDIOC_DQBUF", FALSE, camera_params.buffer, NoArg))
          /\ Die(Diagnostic("VIDIOC_DQBUF"))
          /\ UNCHANGED <<drv, captured>>
    /\ UNCHANGED <<camera_params, dev_open, mapping, region, sink, stdout>>

\* VIDIOC_DQBUF returns once the driver has filled the buffer: the driver
\* hands the buffer back and rewrites the descriptor.
dqbuf_returns_frame ==
    /\ pc = "get_frame_dqbuf"
    /\ drv.filled
    /\ LET b == DqBufReply(camera_params.buffer, drv) IN
       /\ camera_params' = [camera_params EXCEPT !.buffer = b]
       /\ calls' = Append(calls,
              Call("VIDIOC_DQBUF", TRUE, camera_params.buffer, b))
       /\ captured' = Append(captured, b)
    /\ drv' = [drv EXCEPT !.queued = FALSE, !.filled = FALSE]
    /\ Return("get_frame")
    /\ UNCHANGED <<dev_open, mapping, region, sink, stdout>>

\* VIDIOC_DQBUF returns an error status.
dqbuf_returns_error ==
    /\ pc = "get_frame_dqbuf"
    /\ calls' = Append(calls,
           Call("VIDIOC_DQBUF", FALSE, camera_params.buffer, NoArg))
    /\ Die(Diagnostic("VIDIOC_DQBUF"))
    /\ UNCHANGED <<camera_params, drv, captured>>
    /\ UNCHANGED <<dev_open, mapping, region, sink, stdout>>

get_frame_dqbuf ==
    \/ dqbuf_returns_frame
    \/ dqbuf_returns_error

(***************************************************************************)
(* deactivate_streaming                                                    *)
(***************************************************************************)
deactivate_streaming ==
    /\ pc = "deactivate_streaming"
    /\ \E ok \in BOOLEAN :
        IF ok
        THEN /\ drv' = [drv EXCEPT !.streaming = FALSE, !.queued = FALSE,
                                   !.filled = FALSE]
             /\ calls' = Append(calls,
                    Call("VIDIOC_STREAMOFF", TRUE,
                         [type |-> camera_params.buffer.type], NoArg))
             /\ Return("deactivate_streaming")
        ELSE /\ drv' = drv
             /\ calls' = Append(calls,
                    Call("VIDIOC_STREAMOFF", FALSE,
                         [type |-> camera_params.buffer.type], NoArg))
             /\ Die(Diagnostic("VIDIOC_STREAMOFF"))
    /\ UNCHANGED <<camera_params, dev_open, mapping, region, sink, stdout,
                   captured>>

(***************************************************************************)
(* save_to_image                                                           *)
(***************************************************************************)
\* The n bytes write() reads starting at buffer_start: the region's bytes,
\* and past the end of the mapping whatever memory follows it.
SourceBytes(n) ==
    IF n <= Len(region)
    THEN {SubSeq(region, 1, n)}
    ELSE {region \o t : t \in BytesOfLen(n - Len(region))}

\* What write(fd, buf, n) may return: -1, or the number of bytes written.
WriteResults(n) == {-1} \cup 0..n

save_to_image ==
    /\ pc = "save_to_image"
    /\ \/ \* open(IMAGE_CAPTURE_SAVE_PATH, O_WRONLY | O_CREAT, 0660) fails
          /\ calls' = Append(calls,
                 Call("open_image", FALSE,
                      [path |-> IMAGE_CAPTURE_SAVE_PATH], NoArg))
          /\ Die(Diagnostic("open_image"))
          /\ UNCHANGED sink
       \/ \* the file is opened (created empty when absent), written, closed
          LET len == camera_params.buffer.length
              old == IF sink.exists THEN sink.content ELSE <<>>
          IN
          \E n \in WriteResults(len), src \in SourceBytes(len) :
             /\ sink' = [exists |-> TRUE,
                         content |-> IF n > 0 THEN WriteAt0(old, src, n)
                                              ELSE old]
             /\ calls' = calls \o
                    << Call("open_image", TRUE,
                            [path |-> IMAGE_CAPTURE_SAVE_PATH], NoArg),
                       Call("write", n = len, [length |-> len], [n |-> n]),
                       Call("close_image", TRUE, NoArg, NoArg) >>
             /\ Return("save_to_image")
    /\ UNCHANGED <<camera_params, dev_open, mapping, region, drv, stdout,
                   captured>>

(***************************************************************************)
(* close_camera_device, and the end of main()                              *)
(***************************************************************************)
close_camera_device ==
    /\ pc = "close_camera_device"
    /\ dev_open' = FALSE
    /\ calls' = Append(calls,
           Call("close", TRUE, [fd |-> camera_params.device_fs], NoArg))
    /\ Return("close_camera_device")
    /\ UNCHANGED <<camera_params, mapping, region, drv, sink, stdout, captured>>

\* printf("Image capture successful, ..."); return EXIT_SUCCESS;
main_return ==
    /\ pc = "main_return"
    /\ stdout' = Append(stdout, "Image capture successful, saved to "
                                 \o IMAGE_CAPTURE_SAVE_PATH \o "\n")
    /\ pc' = "exited"
    /\ exit_code' = 0
    /\ UNCHANGED <<camera_params, dev_open, mapping, region, drv, sink, calls,
                   stderr, captured>>

\* A caller invokes get_frame() again while streaming is still active.
second_get_frame ==
    /\ pc = "deactivate_streaming"
    /\ Len(captured) < MaxCaptures
    /\ pc' = "get_frame"
    /\ UNCHANGED <<exit_code, camera_params, dev_open, mapping, region, drv,
                   sink, calls, stderr, stdout, captured>>

(***************************************************************************)
(* Specifications.                                                         *)
(***************************************************************************)
Next ==
    \/ open_camera_device
    \/ set_video_format
    \/ request_buffer
    \/ allocate_buffer
    \/ activate_streaming
    \/ get_frame_qbuf
    \/ driver_fill_buffer
    \/ get_frame_dqbuf
    \/ deactivate_streaming
    \/ save_to_image
    \/ close_camera_device
    \/ main_return

\* The program as main() runs it.
Spec == Init /\ [][Next]_vars

\* The program with get_frame() called up to MaxCaptures times in a row.
NextTwice == Next \/ second_get_frame

SpecTwice == Init /\ [][NextTwice]_vars

\* The program is run a second time after it has exited: a new process
\* with zero-initialised statics, the device released by the first
\* process's exit, the output file removed.  The call log keeps the first
\* run's calls and exit code.
run_again ==
    /\ pc = "exited"
    /\ \A i \in 1..Len(calls) : calls[i].op # "exec"
    /\ calls' = Append(calls,
           Call("exec", TRUE, [exit_code |-> exit_code], NoArg))
    /\ pc' = "open_camera_device"
    /\ exit_code' = -1
    /\ camera_params' = ZeroParams
    /\ dev_open' = FALSE
    /\ mapping' = NoMapping
    /\ region' = <<>>
    /\ drv' = DriverIdle
    /\ sink' = [exists |-> FALSE, content |-> <<>>]
    /\ stderr' = <<>>
    /\ stdout' = <<>>
    /\ captured' = <<>>

NextPair == Next \/ run_again

\* Two runs of the program, one after the other.
SpecPair == Init /\ [][NextPair]_vars

\* The steps the program takes without waiting for the driver: every step
\* but a dequeue that has nothing to return.
ProgramStep ==
    \/ open_camera_device
    \/ set_video_format
    \/ request_buffer
    \/ allocate_buffer
    \/ activate_streaming
    \/ get_frame_qbuf
    \/ dqbuf_returns_frame
    \/ deactivate_streaming
    \/ save_to_image
    \/ close_camera_device
    \/ main_return

\* The program scheduled fairly, with a driver that eventually fills every
\* buffer queued to it while streaming.  No fairness is assumed for an
\* error return of the dequeue.
SpecLive ==
    /\ Init
    /\ [][Next]_vars
    /\ WF_vars(ProgramStep)
    /\ WF_vars(driver_fill_buffer)


(***************************************************************************)
(* Properties.                                                             *)
(***************************************************************************)
\* The operations issued so far, by name.
Ops == [i \in 1..Len(calls) |-> calls[i].op]

IsPrefix(s, t) == Len(s) <= Len(t) /\ \A i \in 1..Len(s) : s[i] = t[i]

\* The fixed order of a complete session.
StepOrder ==
    << "open", "VIDIOC_S_FMT", "VIDIOC_REQBUFS", "VIDIOC_QUERYBUF", "mmap",
       "memset", "VIDIOC_STREAMON", "VIDIOC_QBUF", "VIDIOC_DQBUF",
       "VIDIOC_STREAMOFF", "open_image", "write", "close_image", "close" >>

\* The steps whose failure is fatal.
FatalSteps ==
    {"open", "VIDIOC_S_FMT", "VIDIOC_REQBUFS", "VIDIOC_QUERYBUF", "mmap",
     "VIDIOC_STREAMON", "VIDIOC_QBUF", "VIDIOC_DQBUF", "VIDIOC_STREAMOFF",
     "open_image"}

Issued(op) == \E i \in 1..Len(calls) : calls[i].op = op
Succeeded(op) == \E i \in 1..Len(calls) : calls[i].op = op /\ calls[i].ok
Failed(op) == \E i \in 1..Len(calls) : calls[i].op = op /\ ~calls[i].ok
AllOk == \A i \in 1..Len(calls) : calls[i].ok

\* Number of successful op requests among the first n calls.
RECURSIVE CountOk(_, _)
CountOk(op, n) ==
    IF n = 0 THEN 0
    ELSE CountOk(op, n - 1)
         + (IF calls[n].op = op /\ calls[n].ok THEN 1 ELSE 0)

\* C1: when a step (open, set format, request buffers, query buffer, map,
\* stream on, enqueue, dequeue, stream off, sink open) fails, it is the last
\* operation the process issues and the process has exited with code 1
\* without the success report; after a failed device open nothing else has
\* been issued.
C1_FailureStopsSession ==
    /\ \A i \in 1..Len(calls) :
          (calls[i].op \in FatalSteps /\ ~calls[i].ok)
             => /\ i = Len(calls)
                /\ pc = "exited"
                /\ exit_code = 1
                /\ stdout = <<>>
    /\ Failed("open") => Len(calls) = 1

\* C1 witness: stream activation failed after a successful mapping.
C1_Witness ==
    /\ pc = "exited"
    /\ Failed("VIDIOC_STREAMON")
    /\ mapping.mapped

\* C2: the operations issued are a prefix of the fixed order; a run that
\* ended with every step successful issued the whole order and exited 0,
\* and exit code 0 is reached only after the whole order.
C2_StepsArePrefix ==
    /\ IsPrefix(Ops, StepOrder)
    /\ (pc = "exited" /\ AllOk) => (Ops = StepOrder /\ exit_code = 0)
    /\ exit_code = 0 => Ops = StepOrder

\* C2 witness: a complete run in which every step succeeded.
C2_Witness ==
    /\ pc = "exited"
    /\ exit_code = 0
    /\ AllOk
    /\ Len(calls) = Len(StepOrder)

\* C3: every mmap is issued right after a successful VIDIOC_QUERYBUF for
\* index 0, with the length and the offset that query returned (the
\* driver's values for the buffer); when it succeeds the mapping and the
\* region have exactly that length and offset.
C3_MappingMatchesQuery ==
    \A i \in 1..Len(calls) :
       calls[i].op = "mmap" =>
          /\ i > 1
          /\ calls[i - 1].op = "VIDIOC_QUERYBUF"
          /\ calls[i - 1].ok
          /\ calls[i - 1].arg.index = 0
          /\ calls[i - 1].ret.length = drv.length
          /\ calls[i - 1].ret.offset = drv.offset
          /\ calls[i].arg.length = calls[i - 1].ret.length
          /\ calls[i].arg.offset = calls[i - 1].ret.offset
          /\ calls[i].ok =>
                /\ mapping.mapped
                /\ mapping.length = calls[i - 1].ret.length
                /\ mapping.offset = calls[i - 1].ret.offset
                /\ Len(region) = calls[i - 1].ret.length

\* C3 witness: allocate_buffer returned with the longest buffer mapped at a
\* non-zero offset.
C3_Witness ==
    /\ pc = "activate_streaming"
    /\ mapping.mapped
    /\ mapping.offset # 0
    /\ mapping.length = MaxLen

\* C4: from the return of allocate_buffer until a buffer is enqueued, the
\* mapped region has the mapped length and every byte of it is zero.
C4_RegionZeroBeforeEnqueue ==
    (mapping.mapped /\ ~Succeeded("VIDIOC_QBUF"))
       => (Len(region) = mapping.length /\ AllZero(region))

\* C4 witness: streaming is active, nothing is enqueued yet.
C4_Witness ==
    /\ pc = "get_frame"
    /\ drv.streaming
    /\ mapping.mapped
    /\ Len(region) = MaxLen
    /\ ~Issued("VIDIOC_QBUF")

\* C5: exit code 0 only when every step succeeded, the write of the
\* captured bytes to the image sink included.
C5_ExitZeroOnlyOnFullSuccess ==
    exit_code = 0 => AllOk

\* C6: the diagnostic of a fatal failure names the step that failed: no
\* other step emits the same diagnostic.
C6_DiagnosticNamesFailingStep ==
    (pc = "exited" /\ exit_code = 1) =>
       \A s \in FatalSteps :
          Diagnostic(s) = stderr[Len(stderr)] => s = calls[Len(calls)].op

\* C7: a process that failed after a successful device open has exited
\* with the handle still open, no close and no unmap issued, a created
\* mapping still in place; after a failed buffer query or mapping no
\* stream activation has been issued.
C7_NoCleanupOnFailure ==
    (exit_code = 1 /\ Succeeded("open")) =>
       /\ dev_open
       /\ ~Issued("close")
       /\ ~Issued("munmap")
       /\ Succeeded("mmap") => mapping.mapped
       /\ (Failed("VIDIOC_QUERYBUF") \/ Failed("mmap"))
             => ~Issued("VIDIOC_STREAMON")

\* C7 witness: the mapping failed after a successful buffer query.
C7_Witness ==
    /\ pc = "exited"
    /\ exit_code = 1
    /\ Failed("mmap")
    /\ Succeeded("VIDIOC_QUERYBUF")
    /\ dev_open

\* C8: after a run in which every step succeeded (the write wrote all
\* buffer.length bytes), whatever the output path held before, the file
\* holds exactly the buffer.length bytes of the region as they stand after
\* the dequeue, and they are not empty.
C8_SinkHoldsExactlyTheFrame ==
    (exit_code = 0 /\ AllOk) =>
       /\ sink.exists
       /\ sink.content = SubSeq(region, 1, camera_params.buffer.length)
       /\ sink.content # <<>>

\* The enqueue and dequeue requests issued so far.
FrameCalls ==
    SelectSeq(calls, LAMBDA c : c.op \in {"VIDIOC_QBUF", "VIDIOC_DQBUF"})

\* C9: once get_frame has completed twice while streaming, the requests
\* were enqueue, dequeue, enqueue, dequeue, all successful; the second
\* enqueue was handed the descriptor the first call left, naming buffer 0;
\* both frames went into the one mapped region; and the timestamp of the
\* descriptor after the second call differs from the one after the first.
C9_SecondCaptureWellDefined ==
    Len(captured) >= 2 =>
       /\ Len(FrameCalls) >= 4
       /\ \A k \in 1..4 : FrameCalls[k].ok
       /\ FrameCalls[1].op = "VIDIOC_QBUF"
       /\ FrameCalls[2].op = "VIDIOC_DQBUF"
       /\ FrameCalls[3].op = "VIDIOC_QBUF"
       /\ FrameCalls[4].op = "VIDIOC_DQBUF"
       /\ FrameCalls[2].ret = captured[1]
       /\ FrameCalls[3].arg = captured[1]
       /\ FrameCalls[3].arg.index = 0
       /\ FrameCalls[4].arg.index = 0
       /\ FrameCalls[4].ret = captured[2]
       /\ CountOk("mmap", Len(calls)) = 1
       /\ mapping.mapped
       /\ drv.clock >= 2
       /\ captured[2].timestamp # captured[1].timestamp

\* C9 witness: the second get_frame has just returned, streaming still on.
C9_Witness ==
    /\ Len(captured) = 2
    /\ pc = "deactivate_streaming"
    /\ drv.streaming

\* C10: the application touches the region (the zeroing memset, the read
\* by write) only while the driver does not own the buffer: never between
\* a successful enqueue and the matching successful dequeue.  The read for
\* persistence comes after a successful dequeue and a later successful
\* stream-off, and before any close of the device handle.
C10_RegionAccessRespectsOwnership ==
    /\ \A i \in 1..Len(calls) :
          calls[i].op \in {"memset", "write"} =>
             CountOk("VIDIOC_QBUF", i - 1) = CountOk("VIDIOC_DQBUF", i - 1)
    /\ \A i \in 1..Len(calls) :
          calls[i].op = "write" =>
             /\ \E j \in 1..(i - 1), k \in 1..(i - 1) :
                   /\ j < k
                   /\ calls[j].op = "VIDIOC_DQBUF" /\ calls[j].ok
                   /\ calls[k].op = "VIDIOC_STREAMOFF" /\ calls[k].ok
             /\ \A m \in 1..(i - 1) : calls[m].op # "close"
    /\ pc \in {"allocate_buffer", "save_to_image"} => ~drv.queued
    /\ pc = "save_to_image" => (~drv.streaming /\ dev_open)

\* C10 witness: the frame has been read for persistence.
C10_Witness ==
    /\ Issued("write")
    /\ Succeeded("VIDIOC_DQBUF")
    /\ pc = "close_camera_device"

\* Number of op requests issued among the first n calls.
RECURSIVE CountIssued(_, _)
CountIssued(op, n) ==
    IF n = 0 THEN 0
    ELSE CountIssued(op, n - 1) + (IF calls[n].op = op THEN 1 ELSE 0)

\* Position of the first op request in the call log (0 when none).
RECURSIVE FirstAt(_, _)
FirstAt(op, n) ==
    IF n = 0 THEN 0
    ELSE LET before == FirstAt(op, n - 1) IN
         IF before # 0 THEN before
         ELSE IF calls[n].op = op THEN n ELSE 0

PosOf(op) == FirstAt(op, Len(calls))

\* C11: stream-off is issued at most once; it is issued only after a
\* successful stream-on and a successful dequeue; once get_frame has
\* completed and main has moved past deactivate_streaming it has been issued
\* exactly once, and every sink access and the close come after it.
C11_StreamOffOnceAfterCapture ==
    /\ CountIssued("VIDIOC_STREAMOFF", Len(calls)) <= 1
    /\ Issued("VIDIOC_STREAMOFF") =>
          /\ Succeeded("VIDIOC_STREAMON")
          /\ Succeeded("VIDIOC_DQBUF")
          /\ PosOf("VIDIOC_DQBUF") < PosOf("VIDIOC_STREAMOFF")
    /\ (Succeeded("VIDIOC_DQBUF") /\ pc # "deactivate_streaming") =>
          CountIssued("VIDIOC_STREAMOFF", Len(calls)) = 1
    /\ \A op \in {"open_image", "write", "close_image", "close"} :
          Issued(op) =>
             /\ Issued("VIDIOC_STREAMOFF")
             /\ PosOf("VIDIOC_STREAMOFF") < PosOf(op)
    /\ ~Succeeded("VIDIOC_STREAMON") => ~Issued("VIDIOC_STREAMOFF")

\* C11 witness: a complete run, stream-off issued between dequeue and write.
C11_Witness ==
    /\ pc = "exited"
    /\ exit_code = 0
    /\ Succeeded("VIDIOC_STREAMOFF")
    /\ Issued("write")

\* C12: the buffer request carries count 1, type video-capture and memory
\* mode memory-mapped; every buffer query, enqueue and dequeue names buffer
\* index 0; at most one enqueue and at most one dequeue are issued.
C12_ExactlyOneBuffer ==
    /\ \A i \in 1..Len(calls) :
          /\ calls[i].op = "VIDIOC_REQBUFS" =>
                /\ calls[i].arg.count = 1
                /\ calls[i].arg.type = "V4L2_BUF_TYPE_VIDEO_CAPTURE"
                /\ calls[i].arg.memory = "V4L2_MEMORY_MMAP"
          /\ calls[i].op \in {"VIDIOC_QUERYBUF", "VIDIOC_QBUF", "VIDIOC_DQBUF"}
                => calls[i].arg.index = 0
    /\ CountIssued("VIDIOC_REQBUFS", Len(calls)) <= 1
    /\ CountIssued("VIDIOC_QBUF", Len(calls)) <= 1
    /\ CountIssued("VIDIOC_DQBUF", Len(calls)) <= 1
    /\ camera_params.buffer.index = 0

\* C12 witness: the one buffer has been queried, enqueued and dequeued.
C12_Witness ==
    /\ Succeeded("VIDIOC_REQBUFS")
    /\ Succeeded("VIDIOC_QUERYBUF")
    /\ Succeeded("VIDIOC_QBUF")
    /\ Succeeded("VIDIOC_DQBUF")

\* C14: the set-format request is issued at most once, as the first control
\* request and before any buffer request, with width 1920, height 1080,
\* MJPEG and REC709; once it has succeeded the format descriptor stays as
\* the driver returned it.
C14_FormatWriteOnce ==
    /\ CountIssued("VIDIOC_S_FMT", Len(calls)) <= 1
    /\ \A i \in 1..Len(calls) :
          calls[i].op = "VIDIOC_S_FMT" =>
             /\ i = 2
             /\ calls[i].arg.type = "V4L2_BUF_TYPE_VIDEO_CAPTURE"
             /\ calls[i].arg.width = 1920
             /\ calls[i].arg.height = 1080
             /\ calls[i].arg.pixelformat = "V4L2_PIX_FMT_MJPEG"
             /\ calls[i].arg.colorspace = "V4L2_COLORSPACE_REC709"
             /\ calls[i].ok => camera_params.capture_format = calls[i].ret
    /\ Issued("VIDIOC_REQBUFS") =>
          /\ Succeeded("VIDIOC_S_FMT")
          /\ PosOf("VIDIOC_S_FMT") < PosOf("VIDIOC_REQBUFS")

\* C14 witness: the session is complete and the driver had adjusted the
\* format when it latched it.
C14_Witness ==
    /\ pc = "exited"
    /\ exit_code = 0
    /\ camera_params.capture_format.width = 1280

\* The program cannot take a step until the driver acts.
Stalled == pc # "exited" /\ ~ENABLED ProgramStep

\* The program waits in VIDIOC_DQBUF for a buffer the driver still owns.
BlockedInDequeue ==
    /\ pc = "get_frame_dqbuf"
    /\ drv.queued
    /\ ~drv.filled

\* C13: with a driver that eventually fills every queued buffer, every run
\* terminates with exit code 0 or 1; and the only state in which the
\* program waits is the dequeue with the buffer still owned by the driver.
C13_OnlyDequeueBlocks ==
    /\ <>(pc = "exited" /\ exit_code \in {0, 1})
    /\ [](Stalled => BlockedInDequeue)

\* C13 witness: the program waits in the dequeue while the driver, which is
\* streaming, has not yet filled the buffer.
C13_Witness ==
    /\ Stalled
    /\ BlockedInDequeue
    /\ drv.streaming

C17_StreamOffOnEveryExit ==
    (pc = "exited" /\ Succeeded("VIDIOC_STREAMON")) =>
       /\ Issued("VIDIOC_STREAMOFF")
       /\ ~drv.streaming

\* C17 (amended): at process exit after a successful stream activation,
\* stream-off has been issued exactly when the dequeue succeeded; when the
\* enqueue or the dequeue failed the process exited with code 1 without
\* issuing stream-off and the device is still streaming; the device has
\* stopped streaming exactly when stream-off succeeded.
C17_StreamOffOnlyAfterCapture ==
    (pc = "exited" /\ Succeeded("VIDIOC_STREAMON")) =>
       /\ Issued("VIDIOC_STREAMOFF") <=> Succeeded("VIDIOC_DQBUF")
       /\ (Failed("VIDIOC_QBUF") \/ Failed("VIDIOC_DQBUF")) =>
             /\ ~Issued("VIDIOC_STREAMOFF")
             /\ drv.streaming
             /\ exit_code = 1
       /\ ~drv.streaming <=> Succeeded("VIDIOC_STREAMOFF")

\* C17 witness: the enqueue failed and the process exited while streaming.
C17_Witness ==
    /\ pc = "exited"
    /\ Failed("VIDIOC_QBUF")
    /\ drv.streaming

\* The requests whose payload carries a buffer type.
TypedRequests ==
    {"VIDIOC_S_FMT", "VIDIOC_REQBUFS", "VIDIOC_QUERYBUF", "VIDIOC_STREAMON",
     "VIDIOC_QBUF", "VIDIOC_DQBUF", "VIDIOC_STREAMOFF"}

\* C18: every request that carries a buffer type carries video-capture,
\* the stream-off (issued after the dequeue rewrote the descriptor)
\* included; the descriptor handed to the enqueue has type video-capture,
\* memory mode memory-mapped, index 0 and every other field zero, although
\* the buffer query had returned a non-zero length.
C18_TypeTagsAndEnqueueDescriptor ==
    \A i \in 1..Len(calls) :
       /\ calls[i].op \in TypedRequests =>
             calls[i].arg.type = "V4L2_BUF_TYPE_VIDEO_CAPTURE"
       /\ calls[i].op = "VIDIOC_QBUF" =>
             /\ calls[i].arg =
                   [type |-> "V4L2_BUF_TYPE_VIDEO_CAPTURE",
                    memory |-> "V4L2_MEMORY_MMAP", index |-> 0,
                    length |-> 0, offset |-> 0, timestamp |-> 0]
             /\ calls[PosOf("VIDIOC_QUERYBUF")].ret.length > 0

\* C18 witness: stream-off has been issued after a dequeue, for a buffer
\* the query had reported at a non-zero offset.
C18_Witness ==
    /\ Issued("VIDIOC_STREAMOFF")
    /\ Succeeded("VIDIOC_DQBUF")
    /\ calls[PosOf("VIDIOC_QUERYBUF")].ret.offset # 0

\* Under SpecPair the call log holds the first run's calls, the "exec"
\* entry with the first run's exit code, then the second run's calls.
ExecAt == PosOf("exec")

\* Two calls are the same request: the same operation with the same payload.
SameRequest(c, d) == c.op = d.op /\ c.arg = d.arg

\* Two calls got the same answer, apart from the format descriptor a
\* successful set-format writes back.
SameResponse(c, d) ==
    /\ c.op = d.op
    /\ c.ok = d.ok
    /\ c.op # "VIDIOC_S_FMT" => c.ret = d.ret

\* The number of leading calls, among the first n of each run, that both
\* runs issued alike and had answered alike (e is the "exec" position).
RECURSIVE AlikeUpTo(_, _, _)
AlikeUpTo(e, n, k) ==
    IF k >= n THEN k
    ELSE IF /\ SameRequest(calls[k + 1], calls[e + k + 1])
            /\ SameResponse(calls[k + 1], calls[e + k + 1])
         THEN AlikeUpTo(e, n, k + 1)
         ELSE k

\* C15: of two runs, as long as the environment answers both alike except
\* for the format the driver writes back to set-format, the second run
\* issues the same requests with the same arguments as the first, and once
\* it has exited it has issued as many and ended with the same exit code.
C15_AdjustedFormatNeverReadBack ==
    LET e == ExecAt
        len1 == e - 1
        len2 == Len(calls) - e
        n == IF len1 <= len2 THEN len1 ELSE len2
        k == AlikeUpTo(e, n, 0)
    IN  e # 0 =>
           \* the first call not alike, if any, is the same request
           \* answered differently
           /\ k < n => SameRequest(calls[k + 1], calls[e + k + 1])
           /\ (pc = "exited" /\ k = n) =>
                 /\ len1 = len2
                 /\ exit_code = calls[e].arg.exit_code

\* C15 witness: two complete runs answered alike, in which the driver
\* latched different formats.
C15_Witness ==
    LET e == ExecAt IN
    /\ e # 0
    /\ pc = "exited"
    /\ exit_code = 0
    /\ Len(calls) = 2 * e - 1
    /\ AlikeUpTo(e, e - 1, 0) = e - 1
    /\ calls[2].ret.width # calls[e + 2].ret.width

=============================================================================
